---- MODULE Spec2Model ----
(***************************************************************************)
(* Cattle-Scans frontend: the scan page's submission pipeline.             *)
(*                                                                         *)
(* The page chains three react-query mutations through their option-level  *)
(* onSuccess callbacks: scanMutation (inference) -> uploadMutation         *)
(* (artifact store) -> saveDataMutation (location lookup, then the         *)
(* cattle_scans insert).  A call of mutate() builds a new Mutation and     *)
(* points the hook's observer at it; reset() only detaches the observer:   *)
(* the detached Mutation keeps running and its option-level callbacks      *)
(* still fire when its external call returns.                              *)
(*                                                                         *)
(* Each call of scanMutation.mutate is a "run"; runs[r] holds the three    *)
(* Mutations that run r builds, and scanObs / uploadObs / saveObs say      *)
(* which run's Mutation each hook currently observes (0: none, the hook    *)
(* reports status idle, no data, no error).                                *)
(*                                                                         *)
(* The repository holds two versions of the page, pages/Scan.tsx and       *)
(* part_001; their pipelines are the same and they differ in the message   *)
(* of a failed inference, in what they persist as the prediction, and in   *)
(* the columns their review and flag updates write, which build selects.   *)
(* Spec covers both; FairSpec is the pipeline of pages/Scan.tsx with every *)
(* external call returning.                                                *)
(*                                                                         *)
(* RankingSpec is the pipeline with the inference service answering any of *)
(* several mappings (sorted, unsorted, tied, a label twice, empty).        *)
(* FeedbackSpec is one submission followed by reviewMutation, flagMutation *)
(* and the history page's toggleFlag, with the session changing under the  *)
(* page.  SameTickSpec is the pipeline with two photos of one name whose   *)
(* uploads may read the same millisecond of the clock.                     *)
(*                                                                         *)
(* The moderation page also exists twice: ConfirmScans of pages/Admin.tsx  *)
(* (paginated queries, search, sorts, a breed filter, confirmed_by_user_id *)
(* written, a bulk import of several images) and ConfirmScans of part_002  *)
(* (one unpaginated query per column, the flag and helpful filters only,   *)
(* no confirmed_by_user_id, Confirm disabled without a breed).  AdminSpec  *)
(* is the page on a table of NScans scans with nothing confirmed: the      *)
(* queries, the pager, confirmMutation and deleteConfirmed.  ViewSpec and  *)
(* PagesSpec start with a ConfirmedBreed for every scan: ViewSpec reads    *)
(* the two columns under every selection of filters, sorts and pages, and  *)
(* PagesSpec pages through the confirmed column while rows are deleted.    *)
(* RaceSpec adds a second moderator's confirms, and ImportSpec is the bulk *)
(* import of pages/Admin.tsx next to the confirmed column.                 *)
(***************************************************************************)
EXTENDS Naturals, Sequences, FiniteSets

VARIABLES
    build,              \* which version of the page is deployed
    file,               \* Scan: useState<File | null>
    scanId,             \* Scan: useState<string | null>
    inspectionReason,   \* Scan: useState("")
    preview,            \* FileUpload: useState<string | null>
    runs,               \* the Mutations built so far, one record per run
    scanObs,            \* run whose scan Mutation scanMutation observes
    uploadObs,          \* run whose upload Mutation uploadMutation observes
    saveObs,            \* run whose save Mutation saveDataMutation observes
    now,                \* the last reading of Date.now()
    bucket,             \* artifact store "cnb": the set of [path, content] objects
    cattle_scans,       \* the cattle_scans table, in insertion order
    user,               \* useAuth: session?.user ?? null
    notice,             \* the last toast of a review, flag or moderation handler
    confirmed_cattle_breeds,  \* the confirmed_cattle_breeds table
    nextConfirmedId,    \* the id the table gives its next row
    unconfirmedPage,    \* ConfirmScans: useState(1)
    confirmedPage,      \* ConfirmScans: useState(1)
    scansData,          \* ConfirmScans: data of useQuery ["scans", page, pageSize]
    confirmedData,      \* ConfirmScans: data of useQuery ["confirmed", page, pageSize]
    searchUserId,       \* ConfirmScans: useState("")
    filterFlagged,      \* ConfirmScans: useState("all")
    filterHelpful,      \* ConfirmScans: useState("all")
    unconfirmedSort,    \* ConfirmScans: useState("latest")
    confirmedSort,      \* ConfirmScans: useState("latest")
    breedFilter,        \* ConfirmScans: useState("")
    unlinked,           \* history: scans whose last ConfirmedBreed was deleted
    batch               \* UploadConfirmedImage: the import Mutation and its loop

\* the scan page, its Mutations and the artifact store
pipelineVars == <<build, file, scanId, inspectionReason, preview, runs,
                  scanObs, uploadObs, saveObs, now, bucket>>

\* the session and the toast of the feedback handlers
reviewVars == <<user, notice>>

\* ConfirmScans: the filter and sort selections
filterVars == <<searchUserId, filterFlagged, filterHelpful, unconfirmedSort,
                confirmedSort, breedFilter>>

\* the moderation page and its table
adminVars == <<confirmed_cattle_breeds, nextConfirmedId, unconfirmedPage,
               confirmedPage, scansData, confirmedData, filterVars, unlinked,
               batch>>

vars == <<pipelineVars, cattle_scans, reviewVars, adminVars>>

----------------------------------------------------------------------------
(* Bounds *)

MaxRuns == 2

\* rows of cattle_scans when the moderation page opens
NScans == 11

\* ConfirmedBreed rows inserted while the moderation page is open
MaxConfirmed == 1

\* images of one bulk import
MaxBatch == 3

\* bulk imports submitted while the moderation page is open
MaxImports == 1

----------------------------------------------------------------------------
(* Inputs *)

Builds == {"Scan.tsx", "part_001"}

\* the two versions of the moderation page
AdminBuilds == {"Admin.tsx", "part_002"}

NoFile == [name |-> "", content |-> 0]
Files == {[name |-> "cow.jpg", content |-> 1]}

NoId == 0
NoMsg == <<>>
NoData == [present |-> FALSE, predictions |-> <<>>]
NoPath == [time |-> 0, name |-> ""]

\* messages of the external services (statusText, error.message)
Msgs == {"timeout"}

\* a confidence as the inference service writes it: a decimal numeral, the
\* most significant digit first ("41" is <<4, 1>>)
Numerals == {<<9>>, <<4, 1>>}

\* the members of the JSON object the inference service answers with, in the
\* order of the response text: a ranking the service did not sort and whose
\* two best labels tie
InferenceBodies ==
    { << [label |-> "Tharparkar", confidence |-> <<9>>],
         [label |-> "Sahiwal", confidence |-> <<4, 1>>],
         [label |-> "Gir", confidence |-> <<4, 1>>] >> }

\* more of them: a sorted ranking, a label written twice, no member at all
RankingBodies ==
    InferenceBodies \cup
    { << [label |-> "Gir", confidence |-> <<4, 1>>],
         [label |-> "Sahiwal", confidence |-> <<9>>] >>,
      << [label |-> "Gir", confidence |-> <<9>>],
         [label |-> "Sahiwal", confidence |-> <<9>>],
         [label |-> "Gir", confidence |-> <<4, 1>>] >>,
      << >> }

\* what one inference call can come back with:
\*   ok      a 2xx response with a mapping
\*   http    a non-2xx response with a statusText
\*   thrown  fetch or res.json() rejects with an Error
\*   apperr  (part_001's backend) a 2xx response {data: null, error: msg}
ResponsesWith(b, bodies) ==
    [kind : {"ok"}, body : bodies, msg : {""}]
    \cup [kind : {"http", "thrown"}, body : {<<>>}, msg : Msgs]
    \cup (IF b = "part_001"
          THEN [kind : {"apperr"}, body : {<<>>}, msg : Msgs]
          ELSE {})

InferenceResponses(b) == ResponsesWith(b, InferenceBodies)

Coordinates == [latitude |-> 12, longitude |-> 77, accuracy |-> 50000]
NoLocation == [latitude |-> 0, longitude |-> 0, accuracy |-> 0]

Reasons == {"", "limping"}
NoReason == "null"

\* the session's user: null, or the user's id
NoUser == "null"
Users == {"u1"}

NoNotice == [op |-> "", by |-> NoUser, reached |-> FALSE, toast |-> ""]

\* breeds.name of the breeds table; "" is the select's "Select breed"
Breeds == {"Gir", "Sahiwal"}
NoBreed == ""

\* a second moderator, on a page of their own
OtherModerator == "m2"

\* the images picked for a bulk import: the first n of a folder
PhotoNames == <<"a.jpg", "b.jpg", "c.jpg", "d.jpg">>
ImportFiles(n) == [i \in 1..n |-> [name |-> PhotoNames[i], content |-> i]]

\* the import Mutation before the first submission; n is history, the
\* imports submitted so far
NoBatch == [files |-> <<>>, breed |-> NoBreed, urls |-> <<>>,
            path |-> NoPath, st |-> "idle", n |-> 0]

\* ConfirmScans: const pageSize = 10
pageSize == 10

\* useQuery data before the first fetch; confirmed and unlinked are history:
\* the scans that had a ConfirmedBreed when the page was fetched, and the
\* scans of the fetched page whose last ConfirmedBreed had been deleted by then
NoResult == [page |-> 0, data |-> <<>>, count |-> 0,
             confirmed |-> {}, unlinked |-> {}]
NoConfirmed == [page |-> 0, data |-> <<>>, count |-> 0]

----------------------------------------------------------------------------
(* A run's Mutations *)

NewRun(f) ==
    [ file        |-> f,
      scanSt      |-> "pending",      \* idle | pending | success | error
      scanData    |-> NoData,
      uploadSt    |-> "idle",
      uploadPath  |-> NoPath,
      saveSt      |-> "idle",         \* idle | locating | inserting | success | error
      imageUrl    |-> NoPath,
      predFrom    |-> 0,              \* run whose scan data the save closure read
      submitter   |-> NoUser,         \* the user the save closure read
      location    |-> [error |-> FALSE, data |-> NoLocation],
      toast       |-> [title |-> "", description |-> NoMsg],
      \* history, not read by the program
      cause       |-> [stage |-> "", msg |-> ""],
      inferCalls  |-> 1,
      uploadCalls |-> 0,
      locateCalls |-> 0,
      insertCalls |-> 0,
      wasReset    |-> FALSE,          \* a Reset found the run in flight
      rowId       |-> NoId,           \* the id the insert returned
      gaveScanId  |-> NoId ]          \* the id the run passed to setScanId

RunIds == 1..Len(runs)

SavePending(r) == runs[r].saveSt \in {"locating", "inserting"}

\* the stage of run r whose external call is in flight
InFlight(r) ==
    IF runs[r].scanSt = "pending" THEN "inference"
    ELSE IF runs[r].uploadSt = "pending" THEN "upload"
    ELSE IF SavePending(r) THEN "persist"
    ELSE "none"

----------------------------------------------------------------------------
(* What the hooks report (MutationObserver results) *)

ScanIsPending == scanObs # 0 /\ runs[scanObs].scanSt = "pending"
UploadIsPending == uploadObs # 0 /\ runs[uploadObs].uploadSt = "pending"
SaveIsPending == saveObs # 0 /\ SavePending(saveObs)

ScanIsError == scanObs # 0 /\ runs[scanObs].scanSt = "error"
UploadIsError == uploadObs # 0 /\ runs[uploadObs].uploadSt = "error"
SaveIsError == saveObs # 0 /\ runs[saveObs].saveSt = "error"

\* scanMutation.data
ScanMutationData ==
    IF scanObs # 0 /\ runs[scanObs].scanSt = "success"
    THEN runs[scanObs].scanData
    ELSE NoData

\* uploadMutation.data / saveDataMutation.data are present
UploadHasData == uploadObs # 0 /\ runs[uploadObs].uploadSt = "success"
SaveHasData == saveObs # 0 /\ runs[saveObs].saveSt = "success"

----------------------------------------------------------------------------
(* Predictions *)

\* Number(text) of a decimal numeral; Number("") is 0
RECURSIVE Number(_)
Number(text) ==
    IF text = <<>> THEN 0
    ELSE 10 * Number(SubSeq(text, 1, Len(text) - 1)) + text[Len(text)]

\* parseFloat(text) of a decimal numeral
parseFloat(text) == Number(text)

\* Object.entries(await res.json()): JSON.parse keeps one property per name,
\* at the place of the name's first member and with the value of its last
RECURSIVE ObjectEntries(_)
ObjectEntries(members) ==
    IF members = <<>> THEN <<>>
    ELSE LET last == members[Len(members)]
             rest == ObjectEntries(SubSeq(members, 1, Len(members) - 1))
         IN  IF \E i \in DOMAIN rest : rest[i].label = last.label
             THEN [i \in DOMAIN rest |->
                     IF rest[i].label = last.label THEN last ELSE rest[i]]
             ELSE Append(rest, last)

\* what the scan mutationFn resolves to: pages/Scan.tsx maps the entries to
\* {label, confidence: Number(confidence)}; part_001 returns the mapping as
\* it came
ScanData(b, members) ==
    LET entries == ObjectEntries(members) IN
    [ present     |-> TRUE,
      predictions |-> IF b = "Scan.tsx"
                      THEN [i \in DOMAIN entries |->
                              [label      |-> entries[i].label,
                               confidence |-> Number(entries[i].confidence)]]
                      ELSE entries ]

\* the number the comparators read from an entry
Confidence(b, e) ==
    IF b = "Scan.tsx" THEN e.confidence ELSE parseFloat(e.confidence)

\* Array.prototype.sort with (a, b) => b.confidence - a.confidence: a stable
\* sort, entries the comparator calls equal keep their order
RECURSIVE SortByConfidence(_, _)
SortByConfidence(b, list) ==
    IF list = <<>> THEN <<>>
    ELSE LET e == Head(list)
             rest == SortByConfidence(b, Tail(list))
             before == {i \in DOMAIN rest : Confidence(b, rest[i]) > Confidence(b, e)}
         IN  SubSeq(rest, 1, Cardinality(before))
             \o <<e>>
             \o SubSeq(rest, Cardinality(before) + 1, Len(rest))

\* a render of the Results section: pages/Scan.tsx sorts
\* scanMutation.data.predictions itself, part_001 sorts a fresh array of
\* entries; the section is rendered when file is set and the hook holds data
RenderResults(b, shown, data) ==
    IF b = "Scan.tsx" /\ shown
    THEN [data EXCEPT !.predictions = SortByConfidence(b, @)]
    ELSE data

\* the scan mutationFn's result for each mapping the service can answer with,
\* as the hook holds it after a render with (TRUE) or without (FALSE) the
\* Results section
RenderedScanData ==
    [b \in Builds |-> [shown \in BOOLEAN |-> [members \in RankingBodies |->
        RenderResults(b, shown, ScanData(b, members))]]]

\* topPrediction: the first entry of a sorted copy, null without data,
\* undefined when the list is empty
NoPrediction == [label |-> "", confidence |-> 0]

topPrediction ==
    IF ScanMutationData.present /\ ScanMutationData.predictions # <<>>
    THEN LET top == SortByConfidence(build, ScanMutationData.predictions)[1]
         IN  [label |-> top.label, confidence |-> Confidence(build, top)]
    ELSE NoPrediction

----------------------------------------------------------------------------
(* Init *)

Init ==
    /\ build \in Builds
    /\ file = NoFile
    /\ scanId = NoId
    /\ inspectionReason = ""
    /\ preview = NoFile
    /\ runs = <<>>
    /\ scanObs = 0
    /\ uploadObs = 0
    /\ saveObs = 0
    /\ now = 0
    /\ bucket = {}
    /\ cattle_scans = <<>>
    /\ user = NoUser
    /\ notice = NoNotice
    /\ confirmed_cattle_breeds = <<>>
    /\ nextConfirmedId = 1
    /\ unconfirmedPage = 1
    /\ confirmedPage = 1
    /\ scansData = NoResult
    /\ confirmedData = NoConfirmed
    /\ searchUserId = ""
    /\ filterFlagged = "all"
    /\ filterHelpful = "all"
    /\ unconfirmedSort = "latest"
    /\ confirmedSort = "latest"
    /\ breedFilter = ""
    /\ unlinked = {}
    /\ batch = NoBatch

----------------------------------------------------------------------------
(* FileUpload widget *)

\* handleFileSelect / capturePhoto: the picker and the camera are rendered
\* only while there is no preview
SelectFile(f) ==
    /\ preview = NoFile
    /\ file' = f
    /\ preview' = f
    /\ UNCHANGED <<reviewVars, adminVars,
                   build, scanId, inspectionReason, runs, scanObs, uploadObs,
                   saveObs, now, bucket, cattle_scans>>

\* the "Retake / Reset" button is rendered only in preview mode
ResetEnabled == preview # NoFile

\* the runs a Reset finds with an external call in flight are marked
MarkReset(rs) ==
    [r \in DOMAIN rs |->
        IF InFlight(r) # "none" THEN [rs[r] EXCEPT !.wasReset = TRUE] ELSE rs[r]]

\* handleReset: the three reset() calls detach the observers
handleReset ==
    /\ file' = NoFile
    /\ scanId' = NoId
    /\ inspectionReason' = ""
    /\ scanObs' = 0
    /\ uploadObs' = 0
    /\ saveObs' = 0
    /\ runs' = MarkReset(runs)

\* handleRemove: setPreview(null); onFileSelect(null); onReset()
handleRemove ==
    /\ ResetEnabled
    /\ preview' = NoFile
    /\ handleReset
    /\ UNCHANGED <<reviewVars, adminVars,
                   build, now, bucket, cattle_scans>>

----------------------------------------------------------------------------
(* Stage 1: scanMutation *)

\* the Analyze button is rendered when file is set and disabled while any of
\* the three hooks reports isPending
AnalyzeEnabled ==
    /\ file # NoFile
    /\ ~ScanIsPending
    /\ ~UploadIsPending
    /\ ~SaveIsPending

\* mutant: the upload is started together with the inference request
handleScan_UploadAtOnce ==
    /\ AnalyzeEnabled
    /\ Len(runs) < MaxRuns
    /\ runs' = Append(runs, [NewRun(file) EXCEPT !.uploadSt = "pending",
                                                 !.uploadCalls = 1])
    /\ scanObs' = Len(runs) + 1
    /\ uploadObs' = Len(runs) + 1
    /\ UNCHANGED <<reviewVars, adminVars,
                   build, file, scanId, inspectionReason, preview,
                   saveObs, now, bucket, cattle_scans>>

\* handleScan: scanMutation.mutate(file) builds a new Mutation and issues the
\* inference request
handleScan ==
    /\ AnalyzeEnabled
    /\ Len(runs) < MaxRuns
    /\ runs' = Append(runs, NewRun(file))
    /\ scanObs' = Len(runs) + 1
    /\ UNCHANGED <<reviewVars, adminVars,
                   build, file, scanId, inspectionReason, preview, uploadObs,
                   saveObs, now, bucket, cattle_scans>>

\* the message of the Error the scan mutationFn throws
ScanErrorMessage(b, resp) ==
    IF resp.kind = "thrown" THEN <<resp.msg>>
    ELSE IF b = "Scan.tsx" THEN <<"Prediction failed: ", resp.msg>>
    ELSE IF resp.kind = "http" THEN <<"Failed to scan">>
    ELSE <<"Scan returned an error">>

\* uploadMutation.mutate(file): a new upload Mutation, observed by the hook;
\* its mutationFn names the object images/<Date.now()>-<file.name> and issues
\* the upload
UploadMutate(run, t) ==
    [run EXCEPT !.uploadSt = "pending",
                !.uploadPath = [time |-> t, name |-> run.file.name],
                !.uploadCalls = @ + 1]

\* scanMutation.onSuccess, at time t, and the render that follows the Mutation's
\* success
ScanOnSuccess(r, resp, t) ==
    /\ runs' = [runs EXCEPT ![r] =
                  UploadMutate([@ EXCEPT !.scanSt = "success",
                                         !.scanData =
                                            RenderedScanData[build]
                                                [file # NoFile /\ scanObs = r]
                                                [resp.body]], t)]
    /\ uploadObs' = r
    /\ now' = t
    /\ UNCHANGED <<reviewVars, adminVars,
                   build, file, scanId, inspectionReason, preview, scanObs,
                   saveObs, bucket, cattle_scans>>

\* mutant: the upload is chained from the error callback too
ScanOnError_StillUploads(r, resp) ==
    /\ runs' = [runs EXCEPT ![r] =
                  UploadMutate([@ EXCEPT !.scanSt = "error",
                            !.cause = [stage |-> "inference", msg |-> resp.msg],
                            !.toast = [title |-> "Scan failed",
                                       description |-> ScanErrorMessage(build, resp)]],
                               now)]
    /\ uploadObs' = r
    /\ UNCHANGED <<reviewVars, adminVars,
                   build, file, scanId, inspectionReason, preview, scanObs,
                   saveObs, now, bucket, cattle_scans>>

\* scanMutation.onError
ScanOnError(r, resp) ==
    /\ runs' = [runs EXCEPT ![r] =
                  [@ EXCEPT !.scanSt = "error",
                            !.cause = [stage |-> "inference", msg |-> resp.msg],
                            !.toast = [title |-> "Scan failed",
                                       description |-> ScanErrorMessage(build, resp)]]]
    /\ UNCHANGED <<reviewVars, adminVars,
                   build, file, scanId, inspectionReason, preview, scanObs,
                   uploadObs, saveObs, now, bucket, cattle_scans>>

\* the inference request of run r returns, at time t
InferenceReturns(r, resp, t) ==
    /\ runs[r].scanSt = "pending"
    /\ IF resp.kind = "ok" THEN ScanOnSuccess(r, resp, t) ELSE ScanOnError(r, resp)

----------------------------------------------------------------------------
(* Stage 2: uploadMutation *)

\* storage.upload(fileName, file, {upsert: true})
Upsert(b, path, content) ==
    {o \in b : o.path # path} \cup {[path |-> path, content |-> content]}

\* saveDataMutation.mutate(publicUrl): a new save Mutation, observed by the
\* hook; its mutationFn reads scanMutation.data before anything else
SaveMutate(run, url) ==
    IF ~ScanMutationData.present
    THEN [run EXCEPT !.saveSt = "error",
                     !.imageUrl = url,
                     !.cause = [stage |-> "persist", msg |-> "No scan results to save"],
                     !.toast = [title |-> "Save failed",
                                description |-> <<"No scan results to save">>]]
    ELSE [run EXCEPT !.saveSt = "locating",
                     !.imageUrl = url,
                     !.predFrom = scanObs,
                     !.submitter = user,
                     !.locateCalls = @ + 1]

\* uploadMutation.onSuccess
UploadOnSuccess(r) ==
    /\ bucket' = Upsert(bucket, runs[r].uploadPath, runs[r].file.content)
    /\ runs' = [runs EXCEPT ![r] =
                  SaveMutate([@ EXCEPT !.uploadSt = "success"], runs[r].uploadPath)]
    /\ saveObs' = r
    /\ UNCHANGED <<reviewVars, adminVars,
                   build, file, scanId, inspectionReason, preview, scanObs,
                   uploadObs, now, cattle_scans>>

\* mutant: a rejected upload is issued a second time
UploadOnError_Retries(r, msg) ==
    /\ runs' = [runs EXCEPT ![r] =
                  IF @.uploadCalls < 2
                  THEN [@ EXCEPT !.uploadCalls = @ + 1]
                  ELSE [@ EXCEPT !.uploadSt = "error",
                                 !.cause = [stage |-> "upload", msg |-> msg],
                                 !.toast = [title |-> "Upload failed",
                                            description |-> <<msg>>]]]
    /\ UNCHANGED <<reviewVars, adminVars,
                   build, file, scanId, inspectionReason, preview, scanObs,
                   uploadObs, saveObs, now, bucket, cattle_scans>>

\* uploadMutation.onError
UploadOnError(r, msg) ==
    /\ runs' = [runs EXCEPT ![r] =
                  [@ EXCEPT !.uploadSt = "error",
                            !.cause = [stage |-> "upload", msg |-> msg],
                            !.toast = [title |-> "Upload failed",
                                       description |-> <<msg>>]]]
    /\ UNCHANGED <<reviewVars, adminVars,
                   build, file, scanId, inspectionReason, preview, scanObs,
                   uploadObs, saveObs, now, bucket, cattle_scans>>

\* the storage upload of run r returns
UploadReturns(r, ok, msg) ==
    /\ runs[r].uploadSt = "pending"
    /\ IF ok THEN UploadOnSuccess(r) ELSE UploadOnError(r, msg)

----------------------------------------------------------------------------
(* Stage 3: saveDataMutation *)

\* getBestLocation: never rejects; a failed lookup is {error: message, data: null}
getBestLocation(found) ==
    IF found THEN [error |-> FALSE, data |-> Coordinates]
    ELSE [error |-> TRUE, data |-> NoLocation]

\* mutant: the test on location.error is inverted
LocationColumn_Inverted(location) ==
    IF ~location.error THEN [isNull |-> TRUE, value |-> NoLocation]
    ELSE [isNull |-> FALSE, value |-> location.data]

\* location.error ? null : location.data
LocationColumn(location) ==
    IF location.error THEN [isNull |-> TRUE, value |-> NoLocation]
    ELSE [isNull |-> FALSE, value |-> location.data]

\* the location lookup of run r returns; the mutationFn goes on to issue the
\* cattle_scans insert
LocationReturns(r, found) ==
    /\ runs[r].saveSt = "locating"
    /\ runs' = [runs EXCEPT ![r] =
                  [@ EXCEPT !.saveSt = "inserting",
                            !.location = getBestLocation(found),
                            !.insertCalls = @ + 1]]
    /\ UNCHANGED <<reviewVars, adminVars,
                   build, file, scanId, inspectionReason, preview, scanObs,
                   uploadObs, saveObs, now, bucket, cattle_scans>>

\* the columns the insert leaves to the table: helpfulness unset, not flagged,
\* no reason
ColumnDefaults ==
    [is_helpful |-> "null", flagged_for_inspection |-> FALSE,
     inspection_reason |-> NoReason]

\* the row the save mutationFn sends; the table gives it its id and stamps
\* created_at, later rows later
ScanRow(r, id) ==
    [ id                     |-> id,
      image_url              |-> runs[r].imageUrl,
      ai_prediction          |-> runs[runs[r].predFrom].scanData.predictions,
      location               |-> LocationColumn(runs[r].location),
      scanned_by_user_id     |-> runs[r].submitter,
      is_helpful             |-> ColumnDefaults.is_helpful,
      flagged_for_inspection |-> ColumnDefaults.flagged_for_inspection,
      inspection_reason      |-> ColumnDefaults.inspection_reason,
      created_at             |-> id,
      run                    |-> r ]     \* history: the run that inserted the row

\* saveDataMutation.onSuccess
SaveOnSuccess(r) ==
    LET id == Len(cattle_scans) + 1 IN
    /\ cattle_scans' = Append(cattle_scans, ScanRow(r, id))
    /\ runs' = [runs EXCEPT ![r] = [@ EXCEPT !.saveSt = "success", !.rowId = id,
                                            !.gaveScanId = id]]
    /\ scanId' = id
    /\ UNCHANGED <<reviewVars, adminVars,
                   build, file, inspectionReason, preview, scanObs, uploadObs,
                   saveObs, now, bucket>>

\* mutant: the insert's error is not looked at and the save counts as done
SaveOnError_TreatedAsSuccess(r, msg) ==
    /\ runs' = [runs EXCEPT ![r] = [@ EXCEPT !.saveSt = "success"]]
    /\ scanId' = NoId
    /\ UNCHANGED <<reviewVars, adminVars,
                   build, file, inspectionReason, preview, scanObs, uploadObs,
                   saveObs, now, bucket, cattle_scans>>

\* saveDataMutation.onError
SaveOnError(r, msg) ==
    /\ runs' = [runs EXCEPT ![r] =
                  [@ EXCEPT !.saveSt = "error",
                            !.cause = [stage |-> "persist", msg |-> msg],
                            !.toast = [title |-> "Save failed",
                                       description |-> <<msg>>]]]
    /\ UNCHANGED <<reviewVars, adminVars,
                   build, file, scanId, inspectionReason, preview, scanObs,
                   uploadObs, saveObs, now, bucket, cattle_scans>>

\* the cattle_scans insert of run r returns
InsertReturns(r, ok, msg) ==
    /\ runs[r].saveSt = "inserting"
    /\ IF ok THEN SaveOnSuccess(r) ELSE SaveOnError(r, msg)

----------------------------------------------------------------------------
(* The rest of the page and of the world *)

\* the reason textarea is rendered once scanId is set (part_001: and a user
\* is signed in)
SetInspectionReason(t) ==
    /\ scanId # NoId
    /\ build = "part_001" => user # NoUser
    /\ inspectionReason' = t
    /\ UNCHANGED <<reviewVars, adminVars,
                   build, file, scanId, preview, runs, scanObs, uploadObs,
                   saveObs, now, bucket, cattle_scans>>

----------------------------------------------------------------------------
(* The session *)

\* Login.tsx verifyOtp succeeds: useAuth hands the pages the new session
SignIn(u) ==
    /\ user = NoUser
    /\ user' = u
    /\ UNCHANGED <<pipelineVars, cattle_scans, notice, adminVars>>

\* Login.tsx signOut succeeds
SignOut ==
    /\ user # NoUser
    /\ user' = NoUser
    /\ UNCHANGED <<pipelineVars, cattle_scans, notice, adminVars>>

----------------------------------------------------------------------------
(* Feedback: reviewMutation, flagMutation, and the history page's toggle *)

\* .update(columns).eq("id", id): changed[i] is row i with the columns written
UpdateById(table, id, changed) ==
    [i \in DOMAIN table |-> IF table[i].id = id THEN changed[i] ELSE table[i]]

\* mutant: the button toggles the signal, a second press withdraws it
ReviewUpdate_Toggles(b, row, isHelpful, u) ==
    [row EXCEPT !.is_helpful = IF @ = isHelpful THEN "null" ELSE isHelpful]

\* the columns reviewMutation writes: is_helpful (part_001: and
\* scanned_by_user_id: user?.id ?? null)
ReviewUpdate(b, row, isHelpful, u) ==
    IF b = "Scan.tsx"
    THEN [row EXCEPT !.is_helpful = isHelpful]
    ELSE [row EXCEPT !.is_helpful = isHelpful, !.scanned_by_user_id = u]

\* mutant: a flag starts a new inspection and withdraws the helpfulness signal
FlagUpdate_ClearsReview(b, row, flag, reason, u) ==
    [row EXCEPT !.flagged_for_inspection = TRUE,
                !.inspection_reason = reason,
                !.is_helpful = "null"]

\* the columns flagMutation writes: pages/Scan.tsx always flags, part_001
\* writes the flag it is given, the reason only with flag true, and
\* scanned_by_user_id
FlagUpdate(b, row, flag, reason, u) ==
    IF b = "Scan.tsx"
    THEN [row EXCEPT !.flagged_for_inspection = TRUE,
                     !.inspection_reason = reason]
    ELSE [row EXCEPT !.flagged_for_inspection = flag,
                     !.inspection_reason = IF flag THEN reason ELSE NoReason,
                     !.scanned_by_user_id = u]

\* the column toggleFlag writes
ToggleUpdate(row, value) ==
    [row EXCEPT !.flagged_for_inspection = value]

Toast(op, reached, text) ==
    [op |-> op, by |-> user, reached |-> reached, toast |-> text]

\* mutant: without a user the handler returns without a word
reviewMutation_SilentWithoutUser(isHelpful, ok, msg) ==
    /\ scanId # NoId
    /\ build = "part_001" => user # NoUser
    /\ IF user = NoUser
       THEN /\ notice' = Toast("review", FALSE, "")
            /\ UNCHANGED cattle_scans
       ELSE IF ok
       THEN /\ cattle_scans' = UpdateById(cattle_scans, scanId,
                    [i \in DOMAIN cattle_scans |->
                        ReviewUpdate(build, cattle_scans[i], isHelpful, user)])
            /\ notice' = Toast("review", TRUE, "Feedback saved!")
       ELSE /\ notice' = Toast("review", TRUE, msg)
            /\ UNCHANGED cattle_scans
    /\ UNCHANGED <<user, pipelineVars, adminVars>>

\* a press of Helpful / Not Helpful: reviewMutation.mutate({id: scanId,
\* isHelpful}); the card is rendered once scanId is set (part_001: the buttons
\* only with a user)
reviewMutation(isHelpful, ok, msg) ==
    /\ scanId # NoId
    /\ build = "part_001" => user # NoUser
    /\ IF user = NoUser
       THEN /\ notice' = Toast("review", FALSE, "Login required")
            /\ UNCHANGED cattle_scans
       ELSE IF ok
       THEN /\ cattle_scans' = UpdateById(cattle_scans, scanId,
                    [i \in DOMAIN cattle_scans |->
                        ReviewUpdate(build, cattle_scans[i], isHelpful, user)])
            /\ notice' = Toast("review", TRUE, "Feedback saved!")
       ELSE /\ notice' = Toast("review", TRUE, msg)
            /\ UNCHANGED cattle_scans
    /\ UNCHANGED <<user, pipelineVars, adminVars>>

\* a press of Submit Flag: flagMutation.mutate({id: scanId, flag: true,
\* reason: inspectionReason}); the button is disabled without a reason
flagMutation(ok, msg) ==
    /\ scanId # NoId
    /\ inspectionReason # ""
    /\ build = "part_001" => user # NoUser
    /\ IF user = NoUser
       THEN /\ notice' = Toast("flag", FALSE, "Login required")
            /\ UNCHANGED cattle_scans
       ELSE IF ok
       THEN /\ cattle_scans' = UpdateById(cattle_scans, scanId,
                    [i \in DOMAIN cattle_scans |->
                        FlagUpdate(build, cattle_scans[i], TRUE, inspectionReason, user)])
            /\ notice' = Toast("flag", TRUE, "Flag submitted!")
       ELSE /\ notice' = Toast("flag", TRUE, msg)
            /\ UNCHANGED cattle_scans
    /\ UNCHANGED <<user, pipelineVars, adminVars>>

\* Login.tsx toggleFlag(scan, value): the checkbox of a row of "Your Scan
\* History", which lists the rows scanned by the session's user
toggleFlag(id, value, ok, msg) ==
    /\ user # NoUser
    /\ \E i \in DOMAIN cattle_scans :
          /\ cattle_scans[i].id = id
          /\ cattle_scans[i].scanned_by_user_id = user
    /\ IF ok
       THEN /\ cattle_scans' = UpdateById(cattle_scans, id,
                    [i \in DOMAIN cattle_scans |->
                        ToggleUpdate(cattle_scans[i], value)])
            /\ notice' = Toast("toggle", TRUE, IF value THEN "Flagged!" ELSE "Unflagged!")
       ELSE /\ notice' = Toast("toggle", TRUE, msg)
            /\ UNCHANGED cattle_scans
    /\ UNCHANGED <<user, pipelineVars, adminVars>>

----------------------------------------------------------------------------
(* Moderation: ConfirmScans of pages/Admin.tsx and of part_002 *)

\* [...list].sort by created_at, latest or oldest first: a stable sort
RECURSIVE SortByCreatedAt(_, _)
SortByCreatedAt(list, order) ==
    IF list = <<>> THEN <<>>
    ELSE LET e == Head(list)
             rest == SortByCreatedAt(Tail(list), order)
             before == {i \in DOMAIN rest :
                          IF order = "latest"
                          THEN rest[i].created_at > e.created_at
                          ELSE rest[i].created_at < e.created_at}
         IN  SubSeq(rest, 1, Cardinality(before))
             \o <<e>>
             \o SubSeq(rest, Cardinality(before) + 1, Len(rest))

\* .order("created_at", {ascending: false}): the rows of a table from the
\* latest created_at to the earliest; the stamps of a table differ
OrderLatestFirst(table) == SortByCreatedAt(table, "latest")

\* .range(from, to): the rows at offsets from..to, both included
Range(rows, from, to) ==
    IF from + 1 > Len(rows) THEN <<>>
    ELSE SubSeq(rows, from + 1, IF to + 1 < Len(rows) THEN to + 1 ELSE Len(rows))

\* mutant: the page number is taken for a 0-based index
fetchScansPaginated_FromPage(page) ==
    LET from == page * pageSize
        to == from + pageSize - 1
    IN  [data |-> Range(OrderLatestFirst(cattle_scans), from, to),
         count |-> Len(cattle_scans)]

\* fetchScansPaginated({page, pageSize}): every row of cattle_scans is a
\* candidate, confirmed or not
fetchScansPaginated(page) ==
    LET from == (page - 1) * pageSize
        to == from + pageSize - 1
    IN  [data |-> Range(OrderLatestFirst(cattle_scans), from, to),
         count |-> Len(cattle_scans)]

\* part_002 fetchScans: select("*"), every row, as the table holds them
fetchScans == [data |-> cattle_scans, count |-> Len(cattle_scans)]

\* fetchConfirmedPaginated({page, pageSize})
fetchConfirmedPaginated(table, page) ==
    LET from == (page - 1) * pageSize
        to == from + pageSize - 1
    IN  [page |-> page,
         data |-> Range(OrderLatestFirst(table), from, to),
         count |-> Len(table)]

\* part_002 fetchConfirmed: select("*")
fetchConfirmed(table) == [page |-> 1, data |-> table, count |-> Len(table)]

\* what the "scans" query of the deployed page reads for a page
ReadScansPage(page) ==
    IF build = "part_002" THEN fetchScans ELSE fetchScansPaginated(page)

ReadScans == ReadScansPage(unconfirmedPage)

\* what the "confirmed" query of the deployed page reads for a page
ReadConfirmedPage(table, page) ==
    IF build = "part_002" THEN fetchConfirmed(table)
    ELSE fetchConfirmedPaginated(table, page)

ReadConfirmed(table) == ReadConfirmedPage(table, confirmedPage)

\* mutant: the helpfulness select is not looked at
PassesFilters_IgnoresHelpful(scan) ==
    /\ searchUserId = "" \/ scan.scanned_by_user_id = searchUserId
    /\ \/ filterFlagged = "all"
       \/ filterFlagged = "flagged" /\ scan.flagged_for_inspection
       \/ filterFlagged = "notFlagged" /\ ~scan.flagged_for_inspection

\* the three filters of the unconfirmed column (part_002 has the two
\* selects; searchUserId stays "" there)
PassesFilters(scan) ==
    /\ searchUserId = "" \/ scan.scanned_by_user_id = searchUserId
    /\ \/ filterFlagged = "all"
       \/ filterFlagged = "flagged" /\ scan.flagged_for_inspection
       \/ filterFlagged = "notFlagged" /\ ~scan.flagged_for_inspection
    /\ \/ filterHelpful = "all"
       \/ filterHelpful = "helpful" /\ scan.is_helpful = "true"
       \/ filterHelpful = "notHelpful" /\ scan.is_helpful = "false"

\* the unconfirmed column of a fetched list of scans: filtered, and in
\* pages/Admin.tsx sorted; confirmed_cattle_breeds is not looked at
UnconfirmedView(data) ==
    LET kept == SelectSeq(data, PassesFilters) IN
    IF build = "part_002" THEN kept ELSE SortByCreatedAt(kept, unconfirmedSort)

\* unconfirmedScans
unconfirmedScans == UnconfirmedView(scansData.data)

PassesConfirmedFilters(c) ==
    /\ searchUserId = "" \/ c.confirmed_by_user_id = searchUserId
    /\ breedFilter = "" \/ c.breed = breedFilter

\* the confirmed column of a fetched list: part_002 shows it as fetched
ConfirmedView(data) ==
    IF build = "part_002" THEN data
    ELSE SortByCreatedAt(SelectSeq(data, PassesConfirmedFilters), confirmedSort)

\* confirmedScans
confirmedScans == ConfirmedView(confirmedData.data)

totalScans == scansData.count
totalConfirmed == confirmedData.count

\* history: the page of the unconfirmed column that holds the scan with this
\* id, counted from the latest row; part_002 has the one page
PageOf(id) ==
    LET later == {j \in DOMAIN cattle_scans :
                    \E i \in DOMAIN cattle_scans :
                        /\ cattle_scans[i].id = id
                        /\ cattle_scans[j].created_at > cattle_scans[i].created_at}
    IN  IF build = "part_002" THEN unconfirmedPage
        ELSE (Cardinality(later) \div pageSize) + 1

\* the queryFn of ["scans", unconfirmedPage, pageSize] (part_002: ["scans"])
\* answers: on mount, after a page change, on a refetch
FetchScans ==
    /\ LET result == ReadScans IN
        scansData' =
          [page |-> unconfirmedPage,
           data |-> result.data,
           count |-> result.count,
           confirmed |-> {confirmed_cattle_breeds[k].scan_id :
                            k \in DOMAIN confirmed_cattle_breeds},
           unlinked |-> {id \in unlinked : PageOf(id) = unconfirmedPage}]
    /\ UNCHANGED <<pipelineVars, cattle_scans, reviewVars,
                   confirmed_cattle_breeds, nextConfirmedId, unconfirmedPage,
                   confirmedPage, confirmedData, filterVars, unlinked, batch>>

\* the queryFn of ["confirmed", confirmedPage, pageSize] (part_002:
\* ["confirmed"]) answers
FetchConfirmed ==
    /\ confirmedData' = ReadConfirmed(confirmed_cattle_breeds)
    /\ UNCHANGED <<pipelineVars, cattle_scans, reviewVars,
                   confirmed_cattle_breeds, nextConfirmedId, unconfirmedPage,
                   confirmedPage, scansData, filterVars, unlinked, batch>>

\* Prev of the unconfirmed column; the pager is rendered when
\* totalScans > pageSize
PrevUnconfirmedPage ==
    /\ build = "Admin.tsx"
    /\ totalScans > pageSize
    /\ unconfirmedPage # 1
    /\ unconfirmedPage' = IF unconfirmedPage - 1 > 1 THEN unconfirmedPage - 1 ELSE 1
    /\ UNCHANGED <<pipelineVars, cattle_scans, reviewVars,
                   confirmed_cattle_breeds, nextConfirmedId,
                   confirmedPage, scansData, confirmedData, filterVars,
                   unlinked, batch>>

\* Next of the unconfirmed column
NextUnconfirmedPage ==
    /\ build = "Admin.tsx"
    /\ totalScans > pageSize
    /\ ~(unconfirmedPage * pageSize >= totalScans)
    /\ unconfirmedPage' = unconfirmedPage + 1
    /\ UNCHANGED <<pipelineVars, cattle_scans, reviewVars,
                   confirmed_cattle_breeds, nextConfirmedId,
                   confirmedPage, scansData, confirmedData, filterVars,
                   unlinked, batch>>

\* Prev of the confirmed column; the pager is rendered when
\* totalConfirmed > pageSize
PrevConfirmedPage ==
    /\ build = "Admin.tsx"
    /\ totalConfirmed > pageSize
    /\ confirmedPage # 1
    /\ confirmedPage' = IF confirmedPage - 1 > 1 THEN confirmedPage - 1 ELSE 1
    /\ UNCHANGED <<pipelineVars, cattle_scans, reviewVars,
                   confirmed_cattle_breeds, nextConfirmedId,
                   unconfirmedPage, scansData, confirmedData, filterVars,
                   unlinked, batch>>

\* Next of the confirmed column
NextConfirmedPage ==
    /\ build = "Admin.tsx"
    /\ totalConfirmed > pageSize
    /\ ~(confirmedPage * pageSize >= totalConfirmed)
    /\ confirmedPage' = confirmedPage + 1
    /\ UNCHANGED <<pipelineVars, cattle_scans, reviewVars,
                   confirmed_cattle_breeds, nextConfirmedId,
                   unconfirmedPage, scansData, confirmedData, filterVars,
                   unlinked, batch>>

\* the "Search scans by User ID" input
SetSearchUserId(text) ==
    /\ build = "Admin.tsx"
    /\ text # searchUserId
    /\ searchUserId' = text
    /\ UNCHANGED <<pipelineVars, cattle_scans, reviewVars,
                   confirmed_cattle_breeds, nextConfirmedId, unconfirmedPage,
                   confirmedPage, scansData, confirmedData, filterFlagged,
                   filterHelpful, unconfirmedSort, confirmedSort, breedFilter,
                   unlinked, batch>>

\* the flag select of the unconfirmed column
SetFilterFlagged(value) ==
    /\ value # filterFlagged
    /\ filterFlagged' = value
    /\ UNCHANGED <<pipelineVars, cattle_scans, reviewVars,
                   confirmed_cattle_breeds, nextConfirmedId, unconfirmedPage,
                   confirmedPage, scansData, confirmedData, searchUserId,
                   filterHelpful, unconfirmedSort, confirmedSort, breedFilter,
                   unlinked, batch>>

\* the helpfulness select of the unconfirmed column
SetFilterHelpful(value) ==
    /\ value # filterHelpful
    /\ filterHelpful' = value
    /\ UNCHANGED <<pipelineVars, cattle_scans, reviewVars,
                   confirmed_cattle_breeds, nextConfirmedId, unconfirmedPage,
                   confirmedPage, scansData, confirmedData, searchUserId,
                   filterFlagged, unconfirmedSort, confirmedSort, breedFilter,
                   unlinked, batch>>

\* the sort select of the unconfirmed column
SetUnconfirmedSort(value) ==
    /\ build = "Admin.tsx"
    /\ value # unconfirmedSort
    /\ unconfirmedSort' = value
    /\ UNCHANGED <<pipelineVars, cattle_scans, reviewVars,
                   confirmed_cattle_breeds, nextConfirmedId, unconfirmedPage,
                   confirmedPage, scansData, confirmedData, searchUserId,
                   filterFlagged, filterHelpful, confirmedSort, breedFilter,
                   unlinked, batch>>

\* the sort select of the confirmed column
SetConfirmedSort(value) ==
    /\ build = "Admin.tsx"
    /\ value # confirmedSort
    /\ confirmedSort' = value
    /\ UNCHANGED <<pipelineVars, cattle_scans, reviewVars,
                   confirmed_cattle_breeds, nextConfirmedId, unconfirmedPage,
                   confirmedPage, scansData, confirmedData, searchUserId,
                   filterFlagged, filterHelpful, unconfirmedSort, breedFilter,
                   unlinked, batch>>

\* the breed select of the confirmed column
SetBreedFilter(value) ==
    /\ build = "Admin.tsx"
    /\ value # breedFilter
    /\ breedFilter' = value
    /\ UNCHANGED <<pipelineVars, cattle_scans, reviewVars,
                   confirmed_cattle_breeds, nextConfirmedId, unconfirmedPage,
                   confirmedPage, scansData, confirmedData, searchUserId,
                   filterFlagged, filterHelpful, unconfirmedSort, confirmedSort,
                   unlinked, batch>>

\* the row confirmMutation inserts; the table gives it its id and stamps
\* created_at; part_002 sends no confirmed_by_user_id and the column stays
\* null
ConfirmedRow(b, scan, breed, by, id) ==
    [ id                   |-> id,
      scan_id              |-> scan.id,
      image_url            |-> scan.image_url,
      breed                |-> breed,
      confirmed_by_user_id |-> IF b = "part_002" THEN NoUser ELSE by,
      created_at           |-> id ]

\* mutant: the press goes to the store with an empty breed
Confirm_WithoutBreedCheck(scan, chosen, ok, msg) ==
    /\ nextConfirmedId <= MaxConfirmed
    /\ IF ok
       THEN LET table == Append(confirmed_cattle_breeds,
                                ConfirmedRow(build, scan, chosen, user,
                                             nextConfirmedId))
            IN  /\ confirmed_cattle_breeds' = table
                /\ nextConfirmedId' = nextConfirmedId + 1
                /\ confirmedData' = ReadConfirmed(table)
                /\ unlinked' = unlinked \ {scan.id}
                /\ notice' = Toast("confirm", TRUE, "Scan confirmed successfully")
       ELSE /\ notice' = Toast("confirm", TRUE, msg)
            /\ UNCHANGED <<confirmed_cattle_breeds, nextConfirmedId,
                           confirmedData, unlinked>>
    /\ UNCHANGED <<pipelineVars, cattle_scans, user, unconfirmedPage,
                   confirmedPage, scansData, filterVars, batch>>

\* a press of Confirm on scan, a row of the unconfirmed column, with chosen
\* the row's entry of selectedBreed; pages/Admin.tsx answers a press without
\* a breed with a toast, part_002 disables the button; on success the
\* "confirmed" queries are invalidated and the column's query runs again
Confirm(scan, chosen, ok, msg) ==
    /\ nextConfirmedId <= MaxConfirmed
    /\ build = "part_002" => chosen # NoBreed
    /\ IF chosen = NoBreed
       THEN /\ notice' = Toast("confirm", FALSE, "Please select a breed")
            /\ UNCHANGED <<confirmed_cattle_breeds, nextConfirmedId,
                           confirmedData, unlinked>>
       ELSE IF ok
       THEN LET table == Append(confirmed_cattle_breeds,
                                ConfirmedRow(build, scan, chosen, user,
                                             nextConfirmedId))
            IN  /\ confirmed_cattle_breeds' = table
                /\ nextConfirmedId' = nextConfirmedId + 1
                /\ confirmedData' = ReadConfirmed(table)
                /\ unlinked' = unlinked \ {scan.id}
                /\ notice' = Toast("confirm", TRUE, "Scan confirmed successfully")
       ELSE /\ notice' = Toast("confirm", TRUE, msg)
            /\ UNCHANGED <<confirmed_cattle_breeds, nextConfirmedId,
                           confirmedData, unlinked>>
    /\ UNCHANGED <<pipelineVars, cattle_scans, user, unconfirmedPage,
                   confirmedPage, scansData, filterVars, batch>>

\* the confirmMutation of another moderator's page inserts its row; the
\* queries of this page are not invalidated
OtherConfirm(scan, chosen) ==
    /\ nextConfirmedId <= MaxConfirmed + 1
    /\ confirmed_cattle_breeds' =
          Append(confirmed_cattle_breeds,
                 ConfirmedRow(build, scan, chosen, OtherModerator, nextConfirmedId))
    /\ nextConfirmedId' = nextConfirmedId + 1
    /\ unlinked' = unlinked \ {scan.id}
    /\ UNCHANGED <<pipelineVars, cattle_scans, reviewVars, unconfirmedPage,
                   confirmedPage, scansData, confirmedData, filterVars, batch>>

\* .delete().eq("id", id)
DeleteById(table, id) == SelectSeq(table, LAMBDA row : row.id # id)

\* the ConfirmedBreed rows that reference a scan
ConfirmedFor(table, scan_id) ==
    {k \in DOMAIN table : table[k].scan_id = scan_id}

\* a press of Delete on c, a row of the confirmed column
DeleteConfirmed(c, ok, msg) ==
    /\ IF ok
       THEN LET table == DeleteById(confirmed_cattle_breeds, c.id)
            IN  /\ confirmed_cattle_breeds' = table
                /\ confirmedData' = ReadConfirmed(table)
                /\ unlinked' =
                      IF /\ ConfirmedFor(confirmed_cattle_breeds, c.scan_id) # {}
                         /\ ConfirmedFor(table, c.scan_id) = {}
                      THEN unlinked \cup {c.scan_id}
                      ELSE unlinked
                /\ notice' = Toast("delete", TRUE, "Confirmed image deleted")
       ELSE /\ notice' = Toast("delete", TRUE, msg)
            /\ UNCHANGED <<confirmed_cattle_breeds, confirmedData, unlinked>>
    /\ UNCHANGED <<pipelineVars, cattle_scans, user, nextConfirmedId,
                   unconfirmedPage, confirmedPage, scansData, filterVars,
                   batch>>

----------------------------------------------------------------------------
(* Bulk import: UploadConfirmedImage of pages/Admin.tsx *)

\* `images/${Date.now()}-${file.name}` at time t
ImportPath(f, t) == [time |-> t, name |-> f.name]

\* the rows the batch insert sends, one per uploaded URL; the table gives
\* them consecutive ids
ImportRows(urls, breed, by, firstId) ==
    [i \in DOMAIN urls |->
        [ id                   |-> firstId + i - 1,
          scan_id              |-> NoId,
          image_url            |-> urls[i],
          breed                |-> breed,
          confirmed_by_user_id |-> by,
          created_at           |-> firstId + i - 1 ]]

\* "Upload All" with n images and a breed chosen (the form requires both):
\* mutation.mutate(data) starts the loop and issues the first upload
BulkSubmit(n, breed) ==
    /\ build = "Admin.tsx"
    /\ batch.st \notin {"uploading", "inserting"}
    /\ batch.n < MaxImports
    /\ LET files == ImportFiles(n) IN
        batch' = [files |-> files, breed |-> breed, urls |-> <<>>,
                  path |-> ImportPath(files[1], now + 1),
                  st |-> "uploading", n |-> batch.n + 1]
    /\ now' = now + 1
    /\ UNCHANGED <<build, file, scanId, inspectionReason, preview, runs,
                   scanObs, uploadObs, saveObs, bucket, cattle_scans,
                   reviewVars, confirmed_cattle_breeds, nextConfirmedId,
                   unconfirmedPage, confirmedPage, scansData, confirmedData,
                   filterVars, unlinked>>

\* mutant: the loop does not look at uploadError; the URL of a rejected
\* upload is pushed like any other
BulkUploadReturns_IgnoresError(ok, msg) ==
    /\ batch.st = "uploading"
    /\ LET i == Len(batch.urls) + 1
           urls == Append(batch.urls, batch.path)
       IN  /\ bucket' = IF ok THEN Upsert(bucket, batch.path, batch.files[i].content)
                        ELSE bucket
           /\ IF i < Len(batch.files)
              THEN /\ batch' = [batch EXCEPT !.urls = urls,
                                  !.path = ImportPath(batch.files[i + 1], now + 1)]
                   /\ now' = now + 1
              ELSE /\ batch' = [batch EXCEPT !.urls = urls, !.st = "inserting"]
                   /\ UNCHANGED now
           /\ UNCHANGED notice
    /\ UNCHANGED <<build, file, scanId, inspectionReason, preview, runs,
                   scanObs, uploadObs, saveObs, cattle_scans, user,
                   confirmed_cattle_breeds, nextConfirmedId, unconfirmedPage,
                   confirmedPage, scansData, confirmedData, filterVars, unlinked>>

\* the storage upload of the loop's current image returns: on success its
\* URL is pushed and the next upload, or after the last image the batch
\* insert, is issued; on an error the mutationFn throws
BulkUploadReturns(ok, msg) ==
    /\ batch.st = "uploading"
    /\ IF ok
       THEN LET i == Len(batch.urls) + 1
                urls == Append(batch.urls, batch.path)
            IN  /\ bucket' = Upsert(bucket, batch.path, batch.files[i].content)
                /\ IF i < Len(batch.files)
                   THEN /\ batch' = [batch EXCEPT !.urls = urls,
                                       !.path = ImportPath(batch.files[i + 1], now + 1)]
                        /\ now' = now + 1
                   ELSE /\ batch' = [batch EXCEPT !.urls = urls, !.st = "inserting"]
                        /\ UNCHANGED now
                /\ UNCHANGED notice
       ELSE /\ batch' = [batch EXCEPT !.st = "error"]
            /\ notice' = Toast("import", TRUE, msg)
            /\ UNCHANGED <<bucket, now>>
    /\ UNCHANGED <<build, file, scanId, inspectionReason, preview, runs,
                   scanObs, uploadObs, saveObs, cattle_scans, user,
                   confirmed_cattle_breeds, nextConfirmedId, unconfirmedPage,
                   confirmedPage, scansData, confirmedData, filterVars, unlinked>>

\* the batch insert returns; on success the "confirmed" queries are
\* invalidated and the form is reset
BulkInsertReturns(ok, msg) ==
    /\ batch.st = "inserting"
    /\ IF ok
       THEN LET table == confirmed_cattle_breeds \o
                            ImportRows(batch.urls, batch.breed, user, nextConfirmedId)
            IN  /\ confirmed_cattle_breeds' = table
                /\ nextConfirmedId' = nextConfirmedId + Len(batch.urls)
                /\ confirmedData' = ReadConfirmed(table)
                /\ batch' = [batch EXCEPT !.st = "success"]
                /\ notice' = Toast("import", TRUE,
                                   "All confirmed images uploaded successfully")
       ELSE /\ batch' = [batch EXCEPT !.st = "error"]
            /\ notice' = Toast("import", TRUE, msg)
            /\ UNCHANGED <<confirmed_cattle_breeds, nextConfirmedId, confirmedData>>
    /\ UNCHANGED <<pipelineVars, cattle_scans, user, unconfirmedPage,
                   confirmedPage, scansData, filterVars, unlinked>>

----------------------------------------------------------------------------
(* Specifications *)

\* the uploads of one page are at least a millisecond apart: each reading of
\* Date.now() is later than the one before
InferenceStep == \E r \in RunIds : \E resp \in InferenceResponses(build) :
                    InferenceReturns(r, resp, now + 1)
UploadStep == \E r \in RunIds : \E ok \in BOOLEAN : \E msg \in Msgs :
                    UploadReturns(r, ok, msg)
LocationStep == \E r \in RunIds : \E found \in BOOLEAN : LocationReturns(r, found)
InsertStep == \E r \in RunIds : \E ok \in BOOLEAN : \E msg \in Msgs :
                    InsertReturns(r, ok, msg)

Next ==
    \/ \E f \in Files : SelectFile(f)
    \/ handleRemove
    \/ handleScan
    \/ InferenceStep
    \/ UploadStep
    \/ LocationStep
    \/ InsertStep
    \/ \E t \in Reasons : SetInspectionReason(t)

Spec == Init /\ [][Next]_vars

\* The page with the inference service answering any of RankingBodies
RankingStep == \E r \in RunIds : \E resp \in ResponsesWith(build, RankingBodies) :
                    InferenceReturns(r, resp, now + 1)

RankingNext ==
    \/ \E f \in Files : SelectFile(f)
    \/ handleRemove
    \/ handleScan
    \/ RankingStep
    \/ UploadStep
    \/ LocationStep
    \/ InsertStep

RankingSpec == Init /\ [][RankingNext]_vars

\* One submission of a page and the feedback on it, with the session
\* changing under the page and the history page open next to it
HelpfulValues == {"true", "false"}

FirstScan == runs = <<>> /\ handleScan

ReviewStep == \E h \in HelpfulValues : \E ok \in BOOLEAN : \E msg \in Msgs :
                    reviewMutation(h, ok, msg)
FlagStep == \E ok \in BOOLEAN : \E msg \in Msgs : flagMutation(ok, msg)
ToggleStep == \E i \in DOMAIN cattle_scans : \E value \in BOOLEAN :
                \E ok \in BOOLEAN : \E msg \in Msgs :
                    toggleFlag(cattle_scans[i].id, value, ok, msg)

FeedbackNext ==
    \/ \E f \in Files : SelectFile(f)
    \/ handleRemove
    \/ FirstScan
    \/ InferenceStep
    \/ UploadStep
    \/ LocationStep
    \/ InsertStep
    \/ \E t \in Reasons : SetInspectionReason(t)
    \/ \E u \in Users : SignIn(u)
    \/ SignOut
    \/ ReviewStep
    \/ FlagStep
    \/ ToggleStep

FeedbackSpec == Init /\ [][FeedbackNext]_vars

\* The moderation page, opened by a signed-in moderator on a table of NScans
\* rows that scan pages wrote and gave feedback on
SeedScan(k) ==
    [ id                     |-> k,
      image_url              |-> [time |-> k, name |-> "cow.jpg"],
      ai_prediction          |-> <<[label |-> "Gir", confidence |-> 41]>>,
      location               |-> LocationColumn(getBestLocation(k % 2 = 0)),
      scanned_by_user_id     |-> IF k % 3 = 0 THEN NoUser ELSE "u1",
      is_helpful             |-> IF k % 3 = 0 THEN "null"
                                 ELSE IF k % 3 = 1 THEN "true" ELSE "false",
      flagged_for_inspection |-> k % 2 = 1 /\ k % 3 # 0,
      inspection_reason      |-> IF k % 2 = 1 /\ k % 3 # 0 THEN "limping" ELSE NoReason,
      created_at             |-> k,
      run                    |-> 0 ]

AdminPageInit ==
    /\ build \in AdminBuilds
    /\ file = NoFile
    /\ scanId = NoId
    /\ inspectionReason = ""
    /\ preview = NoFile
    /\ runs = <<>>
    /\ scanObs = 0
    /\ uploadObs = 0
    /\ saveObs = 0
    /\ now = NScans
    /\ bucket = {[path |-> [time |-> k, name |-> "cow.jpg"], content |-> 1] : k \in 1..NScans}
    /\ cattle_scans = [k \in 1..NScans |-> SeedScan(k)]
    /\ user \in Users
    /\ notice = NoNotice
    /\ unconfirmedPage = 1
    /\ confirmedPage = 1
    /\ scansData = NoResult
    /\ confirmedData = NoConfirmed
    /\ searchUserId = ""
    /\ filterFlagged = "all"
    /\ filterHelpful = "all"
    /\ unconfirmedSort = "latest"
    /\ confirmedSort = "latest"
    /\ breedFilter = ""
    /\ unlinked = {}
    /\ batch = NoBatch

AdminInit ==
    /\ AdminPageInit
    /\ confirmed_cattle_breeds = <<>>
    /\ nextConfirmedId = 1

ConfirmStep == LET shown == unconfirmedScans IN
               \E k \in DOMAIN shown : \E chosen \in Breeds \cup {NoBreed} :
                 \E ok \in BOOLEAN : \E msg \in Msgs :
                    Confirm(shown[k], chosen, ok, msg)
DeleteStep == LET shown == confirmedScans IN
              \E k \in DOMAIN shown : \E ok \in BOOLEAN : \E msg \in Msgs :
                    DeleteConfirmed(shown[k], ok, msg)

AdminNext ==
    \/ FetchScans
    \/ FetchConfirmed
    \/ PrevUnconfirmedPage
    \/ NextUnconfirmedPage
    \/ ConfirmStep
    \/ DeleteStep

AdminSpec == AdminInit /\ [][AdminNext]_vars

\* The moderation page on a store that holds a ConfirmedBreed for every scan,
\* some of them written by part_002 (no confirmed_by_user_id)
SeedConfirmed(k) ==
    [ id                   |-> k,
      scan_id              |-> k,
      image_url            |-> [time |-> k, name |-> "cow.jpg"],
      breed                |-> IF k % 2 = 0 THEN "Gir" ELSE "Sahiwal",
      confirmed_by_user_id |-> IF k % 3 = 0 THEN NoUser ELSE "u1",
      created_at           |-> k ]

SeededInit ==
    /\ AdminPageInit
    /\ confirmed_cattle_breeds = [k \in 1..NScans |-> SeedConfirmed(k)]
    /\ nextConfirmedId = NScans + 1

\* The two columns read under every selection of filters, sorts and pages,
\* with nothing written to the store
ViewNext ==
    \/ FetchScans
    \/ FetchConfirmed
    \/ PrevUnconfirmedPage
    \/ NextUnconfirmedPage
    \/ PrevConfirmedPage
    \/ NextConfirmedPage
    \/ \E text \in Users \cup {""} : SetSearchUserId(text)
    \/ \E value \in {"all", "flagged", "notFlagged"} : SetFilterFlagged(value)
    \/ \E value \in {"all", "helpful", "notHelpful"} : SetFilterHelpful(value)
    \/ \E value \in {"latest", "oldest"} : SetUnconfirmedSort(value)
    \/ \E value \in {"latest", "oldest"} : SetConfirmedSort(value)
    \/ \E value \in Breeds \cup {""} : SetBreedFilter(value)

ViewSpec == SeededInit /\ [][ViewNext]_vars

\* The confirmed column paged through while its rows are deleted
PagesNext ==
    \/ FetchConfirmed
    \/ PrevConfirmedPage
    \/ NextConfirmedPage
    \/ DeleteStep

PagesSpec == SeededInit /\ [][PagesNext]_vars

\* Two moderators, each on a page of their own, confirming the same scans
OtherConfirmStep == \E i \in DOMAIN cattle_scans : \E chosen \in Breeds :
                        OtherConfirm(cattle_scans[i], chosen)

RaceNext ==
    \/ FetchScans
    \/ FetchConfirmed
    \/ ConfirmStep
    \/ OtherConfirmStep
    \/ DeleteStep

RaceSpec == AdminInit /\ [][RaceNext]_vars

\* The bulk import of pages/Admin.tsx next to the confirmed column
BulkSubmitStep == \E n \in 1..MaxBatch : \E breed \in Breeds : BulkSubmit(n, breed)
BulkUploadStep == \E ok \in BOOLEAN : \E msg \in Msgs : BulkUploadReturns(ok, msg)
BulkInsertStep == \E ok \in BOOLEAN : \E msg \in Msgs : BulkInsertReturns(ok, msg)

ImportNext ==
    \/ BulkSubmitStep
    \/ BulkUploadStep
    \/ BulkInsertStep
    \/ FetchConfirmed
    \/ DeleteStep

ImportInit == AdminInit /\ build = "Admin.tsx"

ImportSpec == ImportInit /\ [][ImportNext]_vars

\* The pipeline alone, on the page App.tsx routes to, with every external
\* call eventually returning
PipelineInit == Init /\ build = "Scan.tsx"

PipelineNext ==
    \/ \E f \in Files : SelectFile(f)
    \/ handleRemove
    \/ handleScan
    \/ InferenceStep
    \/ UploadStep
    \/ LocationStep
    \/ InsertStep

\* an external call in flight returns; a call stays in flight until it does
CallReturns == InferenceStep \/ UploadStep \/ LocationStep \/ InsertStep

FairSpec ==
    /\ PipelineInit
    /\ [][PipelineNext]_vars
    /\ WF_vars(CallReturns)

\* Two submissions of one page whose inference requests can return within
\* the same millisecond, with two photos that carry the same file name
SameNameFiles == {[name |-> "cow.jpg", content |-> 1],
                  [name |-> "cow.jpg", content |-> 2]}

SameTickStep == \E r \in RunIds : \E resp \in InferenceResponses(build) :
                    \E t \in {now, now + 1} : InferenceReturns(r, resp, t)

SameTickNext ==
    \/ \E f \in SameNameFiles : SelectFile(f)
    \/ handleRemove
    \/ handleScan
    \/ SameTickStep
    \/ UploadStep
    \/ LocationStep
    \/ InsertStep

SameTickSpec == Init /\ [][SameTickNext]_vars

----------------------------------------------------------------------------
(* Vocabulary of the claims *)

ScanInFlight(r) == runs[r].scanSt = "pending"
UploadInFlight(r) == runs[r].uploadSt = "pending"

\* the stages of run r with an external call in flight
StagesInFlight(r) ==
    {st \in {"inference", "upload", "persist"} :
        \/ st = "inference" /\ ScanInFlight(r)
        \/ st = "upload" /\ UploadInFlight(r)
        \/ st = "persist" /\ SavePending(r)}

RowsOf(r) == {i \in DOMAIN cattle_scans : cattle_scans[i].run = r}

Complete(r) ==
    /\ runs[r].scanSt = "success"
    /\ runs[r].uploadSt = "success"
    /\ runs[r].saveSt = "success"

FailedAt(r, stage) ==
    \/ /\ stage = "inference"
       /\ runs[r].scanSt = "error"
       /\ runs[r].uploadSt = "idle"
       /\ runs[r].saveSt = "idle"
    \/ /\ stage = "upload"
       /\ runs[r].scanSt = "success"
       /\ runs[r].uploadSt = "error"
       /\ runs[r].saveSt = "idle"
    \/ /\ stage = "persist"
       /\ runs[r].scanSt = "success"
       /\ runs[r].uploadSt = "success"
       /\ runs[r].saveSt = "error"

StageTitle(stage) ==
    IF stage = "inference" THEN "Scan failed"
    ELSE IF stage = "upload" THEN "Upload failed"
    ELSE "Save failed"

\* the page reports a failed stage
PageFailed == ScanIsError \/ UploadIsError \/ SaveIsError

\* the page is Inferring, Uploading, Persisting, Complete or Failed: some
\* hook is pending, holds data or holds an error
PipelineActive ==
    \/ ScanIsPending \/ UploadIsPending \/ SaveIsPending
    \/ ScanMutationData.present \/ UploadHasData \/ SaveHasData
    \/ PageFailed

\* Idle, with nothing left of a run
PageIdle ==
    /\ file = NoFile
    /\ scanId = NoId
    /\ inspectionReason = ""
    /\ ~PipelineActive

----------------------------------------------------------------------------
(* C1: within one run the upload is issued only after the run's inference  *)
(* succeeded, the location lookup and the insert only after the run's      *)
(* upload succeeded, and at most one stage of the run is in flight.        *)
C1_StrictOrder ==
    \A r \in RunIds :
        /\ runs[r].uploadCalls > 0 => runs[r].scanSt = "success"
        /\ runs[r].locateCalls > 0 => runs[r].uploadSt = "success"
        /\ runs[r].insertCalls > 0 => runs[r].uploadSt = "success"
        /\ runs[r].uploadSt # "idle" => runs[r].uploadCalls > 0
        /\ runs[r].saveSt \in {"inserting", "success"} => runs[r].insertCalls > 0
        /\ Cardinality(StagesInFlight(r)) <= 1

C1_Witness ==
    \E r \in RunIds :
        Complete(r) /\ runs[r].uploadCalls = 1 /\ runs[r].insertCalls = 1

(* C2: a run whose inference failed uploads nothing and inserts nothing.   *)
C2_InferenceFailureNoSideEffect ==
    \A r \in RunIds :
        runs[r].scanSt = "error" =>
            /\ runs[r].uploadCalls = 0
            /\ runs[r].uploadSt = "idle"
            /\ runs[r].insertCalls = 0
            /\ runs[r].saveSt = "idle"
            /\ RowsOf(r) = {}

C2_Witness ==
    \E r \in RunIds : runs[r].scanSt = "error" /\ runs[r].toast.title = "Scan failed"

(* C3: Reset is enabled in every state in which a hook of the pipeline is  *)
(* not idle, and the state it leaves is Idle: no file, no scanId, an empty *)
(* reason, and the three hooks without data, error or pending call.        *)
C3_ResetEnabledAndIdle ==
    [][ /\ PipelineActive => ResetEnabled
        /\ handleRemove => PageIdle' ]_vars

(* C4: once a Reset has found run r in flight, no further stage of r is    *)
(* started, no row is inserted for r and scanId is never set from r.       *)
C4_NoStageAfterReset ==
    [][ \A r \in RunIds :
            runs[r].wasReset =>
                /\ runs'[r].uploadCalls = runs[r].uploadCalls
                /\ runs'[r].locateCalls = runs[r].locateCalls
                /\ runs'[r].insertCalls = runs[r].insertCalls
                /\ runs'[r].saveSt = "idle" <=> runs[r].saveSt = "idle"
                /\ runs'[r].rowId = runs[r].rowId
                /\ scanId' # scanId => scanId' \notin {cattle_scans'[i].id : i \in RowsOf(r)'} ]_vars

(* C5: while the page reports a failed stage, no step starts a new run     *)
(* (a new inference call): a Reset has to come first.                      *)
C5_NoScanFromFailed ==
    [][ PageFailed => Len(runs') = Len(runs) ]_vars

(* C6: within one run each external call (inference request, storage       *)
(* upload, location lookup, insert) is issued at most once, and a stage    *)
(* that failed stays failed.                                               *)
C6_AtMostOnce ==
    \A r \in RunIds :
        /\ runs[r].inferCalls <= 1
        /\ runs[r].uploadCalls <= 1
        /\ runs[r].locateCalls <= 1
        /\ runs[r].insertCalls <= 1
        /\ runs[r].cause.stage = "inference" => runs[r].scanSt = "error"
        /\ runs[r].cause.stage = "upload" => runs[r].uploadSt = "error"
        /\ runs[r].cause.stage = "persist" => runs[r].saveSt = "error"

C6_Witness ==
    \E r \in RunIds :
        /\ runs[r].uploadSt = "error"
        /\ runs[r].uploadCalls = 1
        /\ runs[r].toast.title = "Upload failed"

\* run r has ended with a Scan row of its own, or failed at one stage and
\* said which
Outcome(r) ==
    \/ /\ Complete(r)
       /\ runs[r].rowId # NoId
       /\ runs[r].gaveScanId = runs[r].rowId
       /\ \E i \in RowsOf(r) : cattle_scans[i].id = runs[r].rowId
    \/ \E stage \in {"inference", "upload", "persist"} :
          /\ FailedAt(r, stage)
          /\ runs[r].cause.stage = stage
          /\ runs[r].toast.title = StageTitle(stage)

(* C7: given that every external call returns, every run that is started   *)
(* and not reset ends Complete, with its row inserted and scanId set to    *)
(* the row's id when it completes, or Failed at the one stage whose call   *)
(* failed, and it keeps that outcome.                                      *)
(* No more than MaxRuns runs are started, so "every started run comes to   *)
(* be reset or to have its outcome" is: from some point on every started   *)
(* run is reset or has its outcome.                                        *)
C7_Terminates ==
    /\ <>[](\A r \in DOMAIN runs : runs[r].wasReset \/ Outcome(r))
    /\ [][ \A r \in RunIds :
              /\ (~Complete(r) /\ Complete(r)') =>
                     (scanId' = runs'[r].rowId /\ Outcome(r)')
              /\ Outcome(r) => Outcome(r)' ]_vars

C7_Witness ==
    \E r1, r2 \in RunIds :
        /\ ~runs[r1].wasReset /\ Complete(r1) /\ Outcome(r1)
        /\ ~runs[r2].wasReset /\ FailedAt(r2, "persist") /\ Outcome(r2)

(* C8: the notification of a failed stage names the stage and carries the  *)
(* message of the underlying error.                                        *)
C8_FailureVerbatim ==
    \A r \in RunIds :
        runs[r].cause.stage # "" =>
            /\ runs[r].toast.title = StageTitle(runs[r].cause.stage)
            /\ \E i \in DOMAIN runs[r].toast.description :
                   runs[r].toast.description[i] = runs[r].cause.msg

(* C9: a failed location lookup fails nothing: the insert is still issued, *)
(* the row it inserts has a null location, and the run completes with      *)
(* scanId set to the row's id.                                             *)
C9_LocationFailureSwallowed ==
    \A r \in RunIds :
        runs[r].location.error =>
            /\ runs[r].saveSt \in {"inserting", "success", "error"}
            /\ runs[r].insertCalls = 1
            /\ runs[r].saveSt = "error" => runs[r].cause.msg \in Msgs
            /\ runs[r].saveSt = "success" =>
                  /\ RowsOf(r) # {}
                  /\ \A i \in RowsOf(r) :
                        /\ cattle_scans[i].location.isNull
                        /\ runs[r].gaveScanId = cattle_scans[i].id

C9_Witness ==
    \E r \in RunIds :
        /\ runs[r].location.error
        /\ Complete(r)
        /\ \E i \in RowsOf(r) : cattle_scans[i].location.isNull

(* C10: when the upload of a run succeeded and its persist stage fails,    *)
(* the run is Failed(persistence), scanId is null, no row exists for the   *)
(* run and the uploaded object is still in the bucket.                     *)
C10_PersistFailureLeavesOrphan ==
    [][ \A r \in RunIds :
            (runs[r].saveSt # "error" /\ runs'[r].saveSt = "error") =>
                /\ FailedAt(r, "persist")'
                /\ scanId' = NoId
                /\ RowsOf(r)' = {}
                /\ \E o \in bucket' : o.path = runs'[r].uploadPath ]_vars

----------------------------------------------------------------------------
(* C11: every row written to cattle_scans carries a prediction list that   *)
(* is sorted by descending confidence and names no label twice, whatever   *)
(* member list the inference service answered with.                        *)

SortedDescending(b, list) ==
    \A i, j \in DOMAIN list :
        i < j => Confidence(b, list[i]) >= Confidence(b, list[j])

DistinctLabels(list) ==
    \A i, j \in DOMAIN list : i # j => list[i].label # list[j].label

C11_PersistedRankingSorted ==
    \A i \in DOMAIN cattle_scans :
        /\ SortedDescending(build, cattle_scans[i].ai_prediction)
        /\ DistinctLabels(cattle_scans[i].ai_prediction)

----------------------------------------------------------------------------
(* C12: whenever the page holds a non-empty inference result, the headline *)
(* prediction is an entry of highest confidence, and among the entries of  *)
(* highest confidence it is the one whose label comes first in ascending   *)
(* order, wherever the service listed it.                                  *)

\* the labels in ascending order
LabelsAscending == <<"Gir", "Sahiwal", "Tharparkar">>

LabelRank(label) == CHOOSE i \in DOMAIN LabelsAscending : LabelsAscending[i] = label

C12_HeadlineIsFirstOfBest ==
    LET list == ScanMutationData.predictions IN
    (ScanMutationData.present /\ list # <<>>) =>
        /\ \E i \in DOMAIN list :
              /\ list[i].label = topPrediction.label
              /\ Confidence(build, list[i]) = topPrediction.confidence
        /\ \A i \in DOMAIN list :
              /\ Confidence(build, list[i]) <= topPrediction.confidence
              /\ Confidence(build, list[i]) = topPrediction.confidence
                    => LabelRank(topPrediction.label) <= LabelRank(list[i].label)

----------------------------------------------------------------------------
(* C13: no row of cattle_scans has an empty prediction list, and a run     *)
(* whose save read an empty inference result never issues the insert.      *)

C13_NoEmptyRankingPersisted ==
    /\ \A i \in DOMAIN cattle_scans : cattle_scans[i].ai_prediction # <<>>
    /\ \A r \in RunIds :
          runs[r].insertCalls > 0 =>
              runs[runs[r].predFrom].scanData.predictions # <<>>

----------------------------------------------------------------------------
(* C14: a helpfulness or flag update pressed while no user is signed in    *)
(* ends in the toast "Login required", sends nothing to the table and      *)
(* leaves every row as it was.                                             *)

C14_LoginRequired ==
    [][ (user = NoUser /\ (ReviewStep \/ FlagStep)) =>
            /\ notice'.toast = "Login required"
            /\ ~notice'.reached
            /\ cattle_scans' = cattle_scans ]_vars

C14_Witness ==
    /\ scanId # NoId
    /\ notice.op \in {"review", "flag"}
    /\ notice.by = NoUser
    /\ notice.toast = "Login required"

----------------------------------------------------------------------------
(* C15: every row whose inspection flag is false has no stored reason.     *)

C15_UnflaggedHasNoReason ==
    \A i \in DOMAIN cattle_scans :
        ~cattle_scans[i].flagged_for_inspection =>
            cattle_scans[i].inspection_reason = NoReason

----------------------------------------------------------------------------
(* C16: on every stored row, for every helpfulness value, flag value and   *)
(* reason, the helpfulness update followed by the flag update gives the    *)
(* same row as the flag update followed by the helpfulness update.         *)

----------------------------------------------------------------------------
(* C17: on every stored row the helpfulness update applied twice with the  *)
(* same value gives the same row as applied once.                          *)

C17_ReviewIdempotent ==
    \A i \in DOMAIN cattle_scans : \A h \in HelpfulValues : \A u \in Users :
        ReviewUpdate(build, ReviewUpdate(build, cattle_scans[i], h, u), h, u)
          = ReviewUpdate(build, cattle_scans[i], h, u)

\* a row that took the update, the page saying so
C17_Witness ==
    /\ notice = [op |-> "review", by |-> user, reached |-> TRUE,
                 toast |-> "Feedback saved!"]
    /\ \E i \in DOMAIN cattle_scans :
          cattle_scans[i].id = scanId /\ cattle_scans[i].is_helpful \in HelpfulValues

----------------------------------------------------------------------------
(* C18: a review, a flag or a confirm changes on no stored row the image   *)
(* URL, the prediction list, the location, the submitter or the creation   *)
(* stamp.                                                                  *)

Frame(row) ==
    [image_url          |-> row.image_url,
     ai_prediction      |-> row.ai_prediction,
     location           |-> row.location,
     scanned_by_user_id |-> row.scanned_by_user_id,
     created_at         |-> row.created_at]

C18_FeedbackKeepsFrame ==
    [][ (ReviewStep \/ FlagStep \/ ConfirmStep) =>
            /\ DOMAIN cattle_scans' = DOMAIN cattle_scans
            /\ \A i \in DOMAIN cattle_scans :
                  Frame(cattle_scans'[i]) = Frame(cattle_scans[i]) ]_vars

----------------------------------------------------------------------------
(* C19: what a read of a page of the unconfirmed column shows holds no     *)
(* scan that a row of confirmed_cattle_breeds references at that time.     *)

C19_ReadOmitsConfirmed ==
    LET shown == unconfirmedScans IN
    \A k \in DOMAIN shown : shown[k].id \notin scansData.confirmed

----------------------------------------------------------------------------
(* C20: a scan whose only ConfirmedBreed was deleted is in the unconfirmed *)
(* column after every later read of the page that holds it, as long as it  *)
(* passes the column's filters.                                            *)

C20_UnlinkedShownAgain ==
    LET shown == unconfirmedScans IN
    \A id \in scansData.unlinked :
        (\E i \in DOMAIN cattle_scans :
            cattle_scans[i].id = id /\ PassesFilters(cattle_scans[i]))
        => \E k \in DOMAIN shown : shown[k].id = id

\* a read after the delete, the scan on the page read
C20_Witness ==
    LET shown == unconfirmedScans IN
    \E id \in scansData.unlinked :
        /\ ConfirmedFor(confirmed_cattle_breeds, id) = {}
        /\ \E k \in DOMAIN shown : shown[k].id = id

----------------------------------------------------------------------------
(* C29: every stored row is of one submission: its prediction list is the  *)
(* inference result of the run whose upload produced its image URL.        *)

C29_RowOfOneSubmission ==
    \A i \in DOMAIN cattle_scans :
        LET r == cattle_scans[i].run IN
        r \in RunIds =>
            /\ cattle_scans[i].image_url = runs[r].uploadPath
            /\ runs[r].predFrom = r

----------------------------------------------------------------------------
(* C28: two uploads never go to the artifact store under the same name.    *)

C28_DistinctNames ==
    \A r1, r2 \in RunIds :
        (r1 # r2 /\ runs[r1].uploadCalls > 0 /\ runs[r2].uploadCalls > 0)
            => runs[r1].uploadPath # runs[r2].uploadPath

----------------------------------------------------------------------------
(* The columns read page after page *)

\* Math.ceil(total / pageSize), the last page the pager names; part_002 has
\* the one page
LastPage(total) ==
    IF build = "part_002" THEN 1
    ELSE IF total = 0 THEN 0 ELSE ((total - 1) \div pageSize) + 1

\* the rows of the unconfirmed column on pages 1..p, one page after the other,
\* with the store and the selections as they are
RECURSIVE UnconfirmedThrough(_)
UnconfirmedThrough(p) ==
    IF p = 0 THEN <<>>
    ELSE UnconfirmedThrough(p - 1) \o UnconfirmedView(ReadScansPage(p).data)

\* the same for the confirmed column
RECURSIVE ConfirmedThrough(_)
ConfirmedThrough(p) ==
    IF p = 0 THEN <<>>
    ELSE ConfirmedThrough(p - 1)
         \o ConfirmedView(ReadConfirmedPage(confirmed_cattle_breeds, p).data)

\* the count the "scans" query reports, and every page of the column
ReportedTotal == ReadScansPage(1).count
AllUnconfirmed == UnconfirmedThrough(LastPage(ReportedTotal))
AllConfirmed == ConfirmedThrough(LastPage(Len(confirmed_cattle_breeds)))

----------------------------------------------------------------------------
(* C21: the pages 1..ceil(total/pageSize) of the unconfirmed column, one    *)
(* after the other, hold exactly total rows, where total is the count the  *)
(* query reports: every scan that passes the filters once, none twice.     *)

C21_PagesAddUpToTotal ==
    LET all == AllUnconfirmed IN
    /\ Len(all) = ReportedTotal
    /\ \A i, j \in DOMAIN all : all[i].id = all[j].id => i = j
    /\ \A k \in DOMAIN cattle_scans :
          PassesFilters(cattle_scans[k]) =>
              \E i \in DOMAIN all : all[i].id = cattle_scans[k].id

----------------------------------------------------------------------------
(* C22: a column shows the rows of its fetched page that satisfy every     *)
(* filter in use, and no others; a filter left at "all" or empty excludes  *)
(* no row.                                                                 *)

ScanMatches(scan) ==
    /\ filterFlagged = "flagged" => scan.flagged_for_inspection
    /\ filterFlagged = "notFlagged" => ~scan.flagged_for_inspection
    /\ filterHelpful = "helpful" => scan.is_helpful = "true"
    /\ filterHelpful = "notHelpful" => scan.is_helpful = "false"
    /\ searchUserId # "" => scan.scanned_by_user_id = searchUserId

ConfirmedMatches(c) ==
    /\ breedFilter # "" => c.breed = breedFilter
    /\ searchUserId # "" => c.confirmed_by_user_id = searchUserId

C22_ShownIffMatching ==
    LET shown == unconfirmedScans
        kept == confirmedScans
    IN  /\ {shown[k] : k \in DOMAIN shown}
             = {scansData.data[k] : k \in {i \in DOMAIN scansData.data :
                                              ScanMatches(scansData.data[i])}}
        /\ {kept[k] : k \in DOMAIN kept}
             = {confirmedData.data[k] : k \in {i \in DOMAIN confirmedData.data :
                                              ConfirmedMatches(confirmedData.data[i])}}

\* every filter in use, and each column showing some of its page's rows and
\* not others
C22_Witness ==
    /\ filterFlagged = "flagged" /\ filterHelpful = "helpful"
    /\ searchUserId # "" /\ breedFilter # ""
    /\ unconfirmedScans # <<>> /\ Len(unconfirmedScans) < Len(scansData.data)
    /\ confirmedScans # <<>> /\ Len(confirmedScans) < Len(confirmedData.data)

----------------------------------------------------------------------------
(* C23: each column is in the order of its sort selection across all its   *)
(* pages: under "oldest" the created_at stamps rise from the first row of  *)
(* page 1 to the last row of the last page, under "latest" they fall.      *)

InOrder(rows, order) ==
    \A i, j \in DOMAIN rows :
        i < j => IF order = "oldest"
                 THEN rows[i].created_at < rows[j].created_at
                 ELSE rows[i].created_at > rows[j].created_at

C23_OrderedAcrossPages ==
    build = "Admin.tsx" =>
        /\ InOrder(AllUnconfirmed, unconfirmedSort)
        /\ InOrder(AllConfirmed, confirmedSort)

----------------------------------------------------------------------------
(* C24: a confirm of scan s with breed b by moderator m that the store     *)
(* accepts adds exactly one row to confirmed_cattle_breeds, with scan_id   *)
(* s.id, image_url s.image_url, breed b and confirmed_by_user_id m; one    *)
(* the store refuses adds none.                                            *)

C24_ConfirmCreatesTheRow ==
    [][LET shown == unconfirmedScans IN
       \A k \in DOMAIN shown : \A b \in Breeds : \A msg \in Msgs :
          /\ Confirm(shown[k], b, TRUE, msg) =>
               /\ Len(confirmed_cattle_breeds') = Len(confirmed_cattle_breeds) + 1
               /\ SubSeq(confirmed_cattle_breeds', 1, Len(confirmed_cattle_breeds))
                     = confirmed_cattle_breeds
               /\ LET row == confirmed_cattle_breeds'[Len(confirmed_cattle_breeds')]
                  IN  /\ row.scan_id = shown[k].id
                      /\ row.image_url = shown[k].image_url
                      /\ row.breed = b
                      /\ row.confirmed_by_user_id = user
          /\ Confirm(shown[k], b, FALSE, msg) =>
               confirmed_cattle_breeds' = confirmed_cattle_breeds
      ]_vars

----------------------------------------------------------------------------
(* C25: a press of Confirm on a scan with no breed selected reaches no     *)
(* store call: both tables stay as they were, and no row of                *)
(* confirmed_cattle_breeds ever has an empty breed.                        *)

C25_NoBreedNoInsert ==
    /\ [](\A k \in DOMAIN confirmed_cattle_breeds :
             confirmed_cattle_breeds[k].breed # NoBreed)
    /\ [][LET shown == unconfirmedScans IN
          \A k \in DOMAIN shown : \A ok \in BOOLEAN : \A msg \in Msgs :
             Confirm(shown[k], NoBreed, ok, msg) =>
                /\ confirmed_cattle_breeds' = confirmed_cattle_breeds
                /\ cattle_scans' = cattle_scans
                /\ nextConfirmedId' = nextConfirmedId
                /\ ~notice'.reached
         ]_vars

\* the press was answered with the toast, next to a scan that was on show
C25_Witness ==
    /\ notice = [op |-> "confirm", by |-> user, reached |-> FALSE,
                 toast |-> "Please select a breed"]
    /\ unconfirmedScans # <<>>
    /\ confirmed_cattle_breeds = <<>>

----------------------------------------------------------------------------
(* C26: no two rows of confirmed_cattle_breeds reference the same scan,    *)
(* whatever confirms and deletes one or several moderators have made.      *)

C26_OneRowPerScan ==
    \A i, j \in DOMAIN confirmed_cattle_breeds :
        /\ confirmed_cattle_breeds[i].scan_id # NoId
        /\ confirmed_cattle_breeds[i].scan_id = confirmed_cattle_breeds[j].scan_id
        => i = j

----------------------------------------------------------------------------
(* C27: in the bulk import a rejected upload, of whichever image of the    *)
(* batch, ends the operation with an error and without a row inserted; the *)
(* batch insert is issued only when every image of the batch is uploaded,  *)
(* and rows are added only by an insert that was issued so.                *)

C27_AllOrNothing ==
    /\ [](batch.st = "inserting" =>
             /\ Len(batch.urls) = Len(batch.files)
             /\ \A i \in DOMAIN batch.urls :
                   [path |-> batch.urls[i], content |-> batch.files[i].content]
                       \in bucket)
    /\ [][/\ \A msg \in Msgs :
               BulkUploadReturns(FALSE, msg) =>
                  /\ batch'.st = "error"
                  /\ confirmed_cattle_breeds' = confirmed_cattle_breeds
          /\ batch.st = "error" /\ batch'.st = "error" =>
               Len(confirmed_cattle_breeds') <= Len(confirmed_cattle_breeds)
          /\ Len(confirmed_cattle_breeds') > Len(confirmed_cattle_breeds) =>
               /\ batch.st = "inserting" /\ batch'.st = "success"
               /\ Len(confirmed_cattle_breeds')
                     = Len(confirmed_cattle_breeds) + Len(batch.files)
         ]_vars

\* a batch of three whose last upload was rejected after two were stored:
\* the two objects are in the bucket and the table has no row
C27_Witness ==
    /\ batch.st = "error"
    /\ Len(batch.files) = 3 /\ Len(batch.urls) = 2
    /\ \A i \in DOMAIN batch.urls : \E o \in bucket : o.path = batch.urls[i]
    /\ confirmed_cattle_breeds = <<>>

----------------------------------------------------------------------------
(* C30: the page number of each column stays within                        *)
(* 1..max(1, ceil(total/pageSize)), where total is the count last reported *)
(* for the column, so that the page on show is never past the last page.   *)

PagesFor(total) == IF total = 0 THEN 1 ELSE ((total - 1) \div pageSize) + 1

C30_PageWithinRange ==
    /\ unconfirmedPage \in 1..PagesFor(totalScans)
    /\ confirmedPage \in 1..PagesFor(totalConfirmed)

====
